---- MODULE Spec2Model ----
(***************************************************************************)
(* Model of the sample-rate conversion core of math/myriotamath.h:         *)
(* myriota::CircularBuffer<T> (the SampleStore) and the window arithmetic  *)
(* of myriota::Upsampler and myriota::Downsampler, which own one           *)
(* CircularBuffer as member a.                                             *)
(*                                                                         *)
(* One behaviour follows one object from its construction: Init picks the  *)
(* class (kind) and the constructor arguments, the actions are the public  *)
(* member functions.  ret is the outcome of the last call; stream, sets,   *)
(* calls, everValid, requested, firstEval and lastSet are history variables.  *)
(*                                                                         *)
(* MathSpec follows calls of the integer and rational free functions of    *)
(* the same header, BoardSpec the battery measurement of                   *)
(* terminal/g2/boards/MyriotaDB/bsp.c; their behaviours hold no object.    *)
(***************************************************************************)
EXTENDS Integers, FiniteSets, Sequences

VARIABLES
  kind,       \* "store" | "up" | "down": the class that was constructed;
              \* "math" | "board" in the behaviours without an object
  size,       \* CircularBuffer::size (const unsigned int)
  mask,       \* CircularBuffer::mask (const unsigned int)
  buf,        \* CircularBuffer::buf  (std::vector<T>, slots 0..size-1)
  N,          \* CircularBuffer::N    (uint64_t, total pushed)
  W,          \* Upsampler::W / Downsampler::W (window width)
  gamma,      \* Upsampler::gamma / Downsampler::gamma, the fraction p/q
  ret,        \* outcome of the last member call
  stream,     \* history: index |-> value given to push, for the C newest pushes
  sets,       \* history: number of set calls that did not throw
  calls,      \* history: number of push calls made
  everValid,  \* history: indices that were in [minn(), maxn()] at some time
  requested,  \* history: the size argument of the CircularBuffer constructor
  firstEval,  \* history: the first operator() call since the last push
  lastSet,    \* history: the last set call that did not throw
  board       \* the MyriotaDB board of bsp.c: control pin, battery measurement

vars == <<kind, size, mask, buf, N, W, gamma, ret, stream, sets, calls, everValid,
          requested, firstEval, lastSet, board>>

\* what no member function assigns: const members and the constructor argument,
\* and the board
fixed == <<kind, size, mask, W, gamma, requested, board>>

----------------------------------------------------------------------------
(* Bounds of the model *)

\* largest capacity requested from the CircularBuffer constructor
MaxReq == 2
\* cap on the number of push calls in one behaviour (N is a uint64_t)
MaxPush == 6
\* cap on the number of successful set calls in one behaviour
MaxSet == 1
\* largest window width W given to a resampler constructor
MaxW == 1
\* largest magnitude of an integer argument of mod and of the rational functions
MaxInt == 6

\* the samples given to push and set; the code never inspects a sample
Samples == {1, 2}
\* the init argument of CircularBuffer(size, init); differs from every sample
InitElem == 0

----------------------------------------------------------------------------
(* Integer helpers *)

\* floor(a / b) and ceil(a / b) for b > 0, as floor()/ceil() of <math.h> on an
\* exactly representable quotient
FloorDiv(a, b) == a \div b
CeilDiv(a, b) == 0 - ((0 - a) \div b)

\* x & y on two's-complement integers, y >= 0 (int64_t & unsigned int)
RECURSIVE BitAnd(_, _)
BitAnd(x, y) ==
  IF y = 0 THEN 0
  ELSE (x % 2) * (y % 2) + 2 * BitAnd(x \div 2, y \div 2)

IsPowerOfTwo(x) == \E k \in 0..x : 2^k = x

\* smallest power of 2 greater than or equal to x (myriotamath.h:95); the body
\* lives in a file that is not part of the sources, so it follows the comment
RECURSIVE GreaterPow2From(_, _)
GreaterPow2From(p, x) == IF p >= x THEN p ELSE GreaterPow2From(2 * p, x)
myriota_greater_power_of_two(x) == GreaterPow2From(1, x)

----------------------------------------------------------------------------
(* CircularBuffer<T> *)

\* a rounding that leaves out the spare slot of size + 1
CircularBuffer_size_noSpare(req) == myriota_greater_power_of_two(req)

\* CircularBuffer(size, init): size rounded up, mask, buf filled with init, N = 0
CircularBuffer_size(req) == myriota_greater_power_of_two(req + 1)
\* a mask that is the size itself
CircularBuffer_mask_isSize(sz) == sz
CircularBuffer_mask(sz) == sz - 1
CircularBuffer_buf(sz, init) == [i \in 0..(sz - 1) |-> init]

\* uint64_t pushed() const { return N; }
pushed == N

\* int64_t maxn() const { return N - 1; }   (uint64_t result read as int64_t)
maxn == N - 1
\* int64_t minn() const { return N - size; }  (uint64_t wraps, read as int64_t)
minn == N - size

\* const T &operator()(const int64_t n) const { return buf[n & mask]; }
read(n) == buf[BitAnd(n, mask)]

\* a range check that forgets the lower end of the window
InRange_upperOnly(n) == n <= maxn

\* the condition of at and set
InRange(n) == n >= minn /\ n <= maxn

\* at(n): the element, or std::out_of_range
at(n) ==
  IF InRange(n)
    THEN [op |-> "at", n |-> n, status |-> "ok", value |-> read(n)]
    ELSE [op |-> "at", n |-> n, status |-> "out_of_range", value |-> InitElem]

\* a counter that is wrapped like the slot index
push_N_wrapped == BitAnd(N + 1, mask)
\* push: buf[N & mask] = elem; N++
push_buf(elem) == [buf EXCEPT ![BitAnd(N, mask)] = elem]
push_N == N + 1

\* a set that writes the slot after the one it should
set_buf_next(n, v) == [buf EXCEPT ![BitAnd(n + 1, mask)] = v]
\* set: buf[n & mask] = v when in range
set_buf(n, v) == [buf EXCEPT ![BitAnd(n, mask)] = v]

\* the indices a caller tries on the store
Indices == (0 - size - 1)..(MaxPush + 1)

\* history: the values pushed at the indices the buffer can still hold
StreamAfterPush(elem) ==
  [i \in {j \in (DOMAIN stream) \cup {N} : j > N - size} |->
     IF i = N THEN elem ELSE stream[i]]

\* history: the indices [minn(), maxn()] has held, once N is n2
EverValidNext(n2) == everValid \cup ((n2 - size)..(n2 - 1))

\* history: no set call has succeeded
NoSet == [op |-> "none"]
\* history: no operator() call since the last push
NoEval == [op |-> "none"]
\* history: the first operator() call since the last push stays; others tells
\* that a call with another index came after it
FirstEvalNext(r) ==
  IF firstEval = NoEval
    THEN [op |-> "first", n |-> r.n, value |-> r.value, others |-> FALSE]
    ELSE [firstEval EXCEPT !.others = @ \/ r.n # firstEval.n]

\* the effect of CircularBuffer::push on the buffer and on the history
push(elem) ==
  /\ N < MaxPush
  /\ buf' = push_buf(elem)
  /\ N' = push_N
  /\ ret' = [op |-> "push", n |-> N, status |-> "ok", value |-> elem]
  /\ stream' = StreamAfterPush(elem)
  /\ calls' = calls + 1
  /\ everValid' = EverValidNext(N')
  /\ firstEval' = NoEval
  /\ UNCHANGED <<fixed, sets, lastSet>>

Push(elem) ==
  /\ kind = "store"
  /\ push(elem)

At(n) ==
  /\ kind = "store"
  /\ ret' = at(n)
  /\ UNCHANGED <<fixed, buf, N, stream, sets, calls, everValid, firstEval, lastSet>>

\* a set that writes the slot before it checks the index
Set_writeFirst(n, v) ==
  /\ kind = "store"
  /\ sets < MaxSet \/ ~InRange(n)
  /\ buf' = set_buf(n, v)
  /\ IF InRange(n)
       THEN /\ sets' = sets + 1
            /\ ret' = [op |-> "set", n |-> n, status |-> "ok", value |-> v]
            /\ lastSet' = [op |-> "set", n |-> n, value |-> v]
       ELSE /\ UNCHANGED <<sets, lastSet>>
            /\ ret' = [op |-> "set", n |-> n, status |-> "out_of_range", value |-> v]
  /\ UNCHANGED <<fixed, N, stream, calls, everValid, firstEval>>

Set(n, v) ==
  /\ kind = "store"
  /\ sets < MaxSet \/ ~InRange(n)
  /\ IF InRange(n)
       THEN /\ buf' = set_buf(n, v)
            /\ sets' = sets + 1
            /\ ret' = [op |-> "set", n |-> n, status |-> "ok", value |-> v]
            /\ lastSet' = [op |-> "set", n |-> n, value |-> v]
       ELSE /\ UNCHANGED <<buf, sets, lastSet>>
            /\ ret' = [op |-> "set", n |-> n, status |-> "out_of_range", value |-> v]
  /\ UNCHANGED <<fixed, N, stream, calls, everValid, firstEval>>

----------------------------------------------------------------------------
(* Upsampler and Downsampler.  Only the class declarations are in the       *)
(* sources: push, pushed, minn and maxn are defined inline there, the       *)
(* constructors and operator() are not.                                     *)

\* gamma is the fraction gamma.p / gamma.q, so ceil(gamma * x) is
\* CeilDiv(gamma.p * x, gamma.q), and likewise for floor
\* a window start with the operands of the subtraction exchanged
Upsampler_minn_reversed == CeilDiv(gamma.p * (size - maxn + W), gamma.q)
\* int64_t minn() const { return ceil(gamma * (a.maxn() - a.size + W)); }
Upsampler_minn == CeilDiv(gamma.p * (maxn - size + W), gamma.q)
\* int64_t maxn() const { return floor(gamma * (a.maxn() - 1 - W)); }
Upsampler_maxn == FloorDiv(gamma.p * (maxn - 1 - W), gamma.q)
\* int64_t minn() const { return ceil(gamma * (a.maxn() - a.size) + W); }
Downsampler_minn == CeilDiv(gamma.p * (maxn - size) + W * gamma.q, gamma.q)
\* int64_t maxn() const { return floor(gamma * (a.maxn() - 1) - W); }
Downsampler_maxn == FloorDiv(gamma.p * (maxn - 1) - W * gamma.q, gamma.q)

\* int64_t pushed() const { return a.pushed(); }
Upsampler_pushed == pushed
Downsampler_pushed == pushed

\* the input indices m that operator()(n) weighs: W of past and W of future
\* context around the output position, n/gamma - W <= m <= n/gamma + W
Upsampler_support(n) ==
  CeilDiv(n * gamma.q - W * gamma.p, gamma.p)..FloorDiv(n * gamma.q + W * gamma.p, gamma.p)
\* (n - W)/gamma <= m <= (n + W)/gamma
Downsampler_support(n) ==
  CeilDiv((n - W) * gamma.q, gamma.p)..FloorDiv((n + W) * gamma.q, gamma.p)

\* operator()(n) is a fixed weighted sum of the samples it reads through the
\* unchecked a(m); its result is modelled by what it reads
Upsampler_eval(n) == [m \in Upsampler_support(n) |-> read(m)]
Downsampler_eval(n) == [m \in Downsampler_support(n) |-> read(m)]

\* void push(complex x) { a.push(x); }
Upsampler_push(x) ==
  /\ kind = "up"
  /\ push(x)

Downsampler_push(x) ==
  /\ kind = "down"
  /\ push(x)

\* an operator() that consumes the sample under the output position
Upsampler_call_consuming(n) ==
  /\ kind = "up"
  /\ ret' = [op |-> "evaluate", n |-> n, status |-> "ok", value |-> Upsampler_eval(n)]
  /\ firstEval' = FirstEvalNext(ret')
  /\ buf' = [buf EXCEPT ![BitAnd(FloorDiv(n * gamma.q, gamma.p), mask)] = InitElem]
  /\ UNCHANGED <<fixed, N, stream, sets, calls, everValid, lastSet>>

\* complex operator()(int64_t n) const
Upsampler_call(n) ==
  /\ kind = "up"
  /\ ret' = [op |-> "evaluate", n |-> n, status |-> "ok", value |-> Upsampler_eval(n)]
  /\ firstEval' = FirstEvalNext(ret')
  /\ UNCHANGED <<fixed, buf, N, stream, sets, calls, everValid, lastSet>>

Downsampler_call(n) ==
  /\ kind = "down"
  /\ ret' = [op |-> "evaluate", n |-> n, status |-> "ok", value |-> Downsampler_eval(n)]
  /\ firstEval' = FirstEvalNext(ret')
  /\ UNCHANGED <<fixed, buf, N, stream, sets, calls, everValid, lastSet>>

\* the output indices a caller tries: the reported window and one beyond each end
UpsamplerIndices == (Upsampler_minn - 1)..(Upsampler_maxn + 1)
DownsamplerIndices == (Downsampler_minn - 1)..(Downsampler_maxn + 1)

\* the rate ratios of the model, exact in binary floating point
UpGammas == {[p |-> 1, q |-> 1], [p |-> 2, q |-> 1], [p |-> 3, q |-> 2]}
DownGammas == {[p |-> 1, q |-> 2], [p |-> 3, q |-> 4]}

----------------------------------------------------------------------------
(* Construction *)

----------------------------------------------------------------------------
(* Battery voltage measurement of the MyriotaDB board                        *)
(* (terminal/g2/boards/MyriotaDB/bsp.c).  BoardBatteryVoltGet and            *)
(* ShortBatteryVoltGet run in three kinds of step: the set-up of the pins,   *)
(* one iteration of the averaging loop, and the code after the loop.         *)
(* GPIOGet and ADCGetVoltage are the hardware: their results are inputs.     *)
(* board.reads, board.IsRev1, board.returned are kept per function after its *)
(* return as the history of its last call.                                   *)

VEXT_COMPENSATE == 15
AVERAGE_COUNT == 3
\* largest reading of a 12-bit converter
ADC_MAX == 4095

\* millivolts ADCGetVoltage may put in batt; the last one is beyond 12 bits.
\* The sums of the model stay far below 2^32, so uint32_t never wraps here.
ADCValues == {ADC_MAX, 40000}
\* outcome of ADCGetVoltage: non-zero return (err), or 0 and a value in batt
ADCResults ==
  {[err |-> TRUE, batt |-> 0]} \cup {[err |-> FALSE, batt |-> v] : v \in ADCValues}
GPIOLevels == {"GPIO_LOW", "GPIO_HIGH"}

Functions == {"BoardBatteryVoltGet", "ShortBatteryVoltGet"}

\* states of PIN_GPIO2, the pin that controls the measurement switch
Released == [mode |-> "input", pull |-> "GPIO_PULL_DOWN"]
DrivenHigh == [mode |-> "output", level |-> "GPIO_HIGH"]
AfterReset == [mode |-> "reset"]

\* the caller's *mv before any call wrote it
Unwritten == 0 - 1

PowerOn ==
  [pc |-> "reset", fn |-> "none", PIN_GPIO2 |-> AfterReset,
   i |-> 0, batt |-> 0, volt |-> 0,
   IsRev1 |-> [f \in Functions |-> FALSE],
   reads |-> [f \in Functions |-> << >>],
   returned |-> [f \in Functions |-> FALSE],
   rc |-> [f \in Functions |-> 0],
   mv |-> [f \in Functions |-> Unwritten]]

\* a store through uint16_t *mv that keeps 12 bits only
uint16_12bits(v) == v % 4096

\* conversion to uint16_t
uint16(v) == v % 65536

\* *mv = v: mv is uint32_t * in BoardBatteryVoltGet, uint16_t * in
\* ShortBatteryVoltGet
store_mv(f, v) == IF f = "ShortBatteryVoltGet" THEN uint16(v) ELSE v

\* a failure branch that returns with the switch still driven
adc_failed_held(b) ==
  [b EXCEPT !.rc[b.fn] = 0 - 1, !.returned[b.fn] = TRUE,
            !.pc = "idle", !.i = 0, !.batt = 0, !.volt = 0]

\* if (ADCGetVoltage(...)) { GPIOSetModeInput(ControlPin, GPIO_PULL_DOWN);
\*                           return -1; }
adc_failed(b) ==
  [b EXCEPT !.PIN_GPIO2 = Released,
            !.rc[b.fn] = 0 - 1, !.returned[b.fn] = TRUE,
            !.pc = "idle", !.i = 0, !.batt = 0, !.volt = 0]

\* else { volt += batt + VEXT_COMPENSATE; } and i++
adc_ok(b, r) ==
  [b EXCEPT !.batt = r.batt, !.volt = b.volt + r.batt + VEXT_COMPENSATE,
            !.i = b.i + 1]

\* the code after the loop: release, *mv = volt / AVERAGE_COUNT;
\* if (!IsRev1) *mv *= 2; return 0;
averaged(b) ==
  LET avg == store_mv(b.fn, b.volt \div AVERAGE_COUNT)
      out == IF b.IsRev1[b.fn] THEN avg ELSE store_mv(b.fn, avg * 2)
  IN [b EXCEPT !.PIN_GPIO2 = Released,
               !.mv[b.fn] = out, !.rc[b.fn] = 0, !.returned[b.fn] = TRUE,
               !.pc = "idle", !.i = 0, !.batt = 0, !.volt = 0]

\* what the board functions leave alone
noObject == <<kind, size, mask, buf, N, W, gamma, ret, stream, sets, calls,
              everValid, requested, firstEval, lastSet>>

\* int BoardInit(void)
BoardInit ==
  /\ kind = "board"
  /\ board.pc = "reset"
  /\ board' = [board EXCEPT !.pc = "idle", !.PIN_GPIO2 = Released]
  /\ UNCHANGED noObject

\* entry to the loop: board revision read from PIN_ADC1, switch driven high
BatteryVoltGet_begin(f, level) ==
  /\ kind = "board"
  /\ board.pc = "idle"
  /\ board' = [board EXCEPT !.pc = "loop", !.fn = f,
                            !.IsRev1[f] = (level = "GPIO_HIGH"),
                            !.PIN_GPIO2 = DrivenHigh,
                            !.reads[f] = << >>, !.returned[f] = FALSE,
                            !.i = 0, !.batt = 0, !.volt = 0]
  /\ UNCHANGED noObject

\* one iteration of for (unsigned i = 0; i < AVERAGE_COUNT; i++)
BatteryVoltGet_read(f, r) ==
  /\ kind = "board"
  /\ board.pc = "loop"
  /\ board.fn = f
  /\ board.i < AVERAGE_COUNT
  /\ board' = LET b == [board EXCEPT !.reads[f] = Append(@, r)]
              IN IF r.err THEN adc_failed(b) ELSE adc_ok(b, r)
  /\ UNCHANGED noObject

\* loop exit and return 0
BatteryVoltGet_end(f) ==
  /\ kind = "board"
  /\ board.pc = "loop"
  /\ board.fn = f
  /\ ~(board.i < AVERAGE_COUNT)
  /\ board' = averaged(board)
  /\ UNCHANGED noObject

BoardBatteryVoltGet ==
  \/ \E level \in GPIOLevels : BatteryVoltGet_begin("BoardBatteryVoltGet", level)
  \/ \E r \in ADCResults : BatteryVoltGet_read("BoardBatteryVoltGet", r)
  \/ BatteryVoltGet_end("BoardBatteryVoltGet")

ShortBatteryVoltGet ==
  \/ \E level \in GPIOLevels : BatteryVoltGet_begin("ShortBatteryVoltGet", level)
  \/ \E r \in ADCResults : BatteryVoltGet_read("ShortBatteryVoltGet", r)
  \/ BatteryVoltGet_end("ShortBatteryVoltGet")

----------------------------------------------------------------------------
NoCall == [op |-> "new", n |-> 0, status |-> "ok", value |-> InitElem]

Construct(k, req, w, g) ==
  /\ kind = k
  /\ size = CircularBuffer_size(req)
  /\ mask = CircularBuffer_mask(size)
  /\ buf = CircularBuffer_buf(size, InitElem)
  /\ N = 0
  /\ W = w
  /\ gamma = g
  /\ ret = NoCall
  /\ stream = [i \in {} |-> InitElem]
  /\ sets = 0
  /\ calls = 0
  /\ everValid = (0 - size)..(0 - 1)
  /\ requested = req
  /\ firstEval = NoEval
  /\ lastSet = NoSet
  /\ board = PowerOn

Init ==
  \/ \E req \in 0..MaxReq : Construct("store", req, 0, [p |-> 1, q |-> 1])
  \/ \E req \in 0..MaxReq, w \in 1..MaxW, g \in UpGammas : Construct("up", req, w, g)
  \/ \E req \in 0..MaxReq, w \in 1..MaxW, g \in DownGammas : Construct("down", req, w, g)

Next ==
  \/ \E elem \in Samples : Push(elem)
  \/ \E n \in Indices : At(n)
  \/ \E n \in Indices, v \in Samples : Set(n, v)
  \/ \E x \in Samples : Upsampler_push(x)
  \/ \E n \in UpsamplerIndices : Upsampler_call(n)
  \/ \E x \in Samples : Downsampler_push(x)
  \/ \E n \in DownsamplerIndices : Downsampler_call(n)

Spec == Init /\ [][Next]_vars

\* the caller of a resampler keeps feeding it: a push that is possible happens
FairSpec ==
  /\ Spec
  /\ WF_vars(\E x \in Samples : Upsampler_push(x))
  /\ WF_vars(\E x \in Samples : Downsampler_push(x))

----------------------------------------------------------------------------
(* Integer and rational functions of myriotamath.h.  A behaviour of MathSpec *)
(* is a sequence of calls; ret holds the arguments and the result of the     *)
(* last one, and no CircularBuffer is in use.                                *)

Abs(x) == IF x < 0 THEN 0 - x ELSE x

\* x / y and x % y of C: the quotient is truncated toward zero, y # 0
CQuot(x, y) ==
  IF (x >= 0) = (y > 0) THEN Abs(x) \div Abs(y) ELSE 0 - (Abs(x) \div Abs(y))
CRem(x, y) == x - y * CQuot(x, y)

\* a mod that returns the remainder of C as it is
mod_remainder(x, y) == CRem(x, y)

\* template <class T> T mod(const T &x, const T &y):
\*   const T t = x % y; if (t < 0) return t + y; return t;
mod(x, y) ==
  LET t == CRem(x, y) IN IF t < 0 THEN t + y ELSE t

\* long long gcd(long long a, long long b): greatest common divisor
RECURSIVE gcd(_, _)
gcd(a, b) == IF b = 0 THEN Abs(a) ELSE gcd(Abs(b), Abs(a) % Abs(b))

\* a reducer that keeps the sign of the denominator it is given
make_myriota_rational_signed(a, b) ==
  LET g == gcd(a, b) IN [p |-> CQuot(a, g), q |-> CQuot(b, g)]

\* make_myriota_rational(a, b): the rational equivalent to a/b, numerator and
\* denominator relatively prime, denominator > 0
make_myriota_rational(a, b) ==
  LET g == gcd(a, b)
      sgn == IF b < 0 THEN 0 - 1 ELSE 1
  IN [p |-> CQuot(sgn * a, g), q |-> CQuot(sgn * b, g)]

\* myriota_rational_sum(a, b): the sum of two rational numbers
myriota_rational_sum(a, b) ==
  make_myriota_rational(a.p * b.q + b.p * a.q, a.q * b.q)

\* the integer arguments of the model
Ints == (0 - MaxInt)..MaxInt
NonZero == Ints \ {0}

\* what a call of a free function leaves alone: every object
objects == <<fixed, buf, N, stream, sets, calls, everValid, firstEval, lastSet>>

Mod(x, y) ==
  /\ kind = "math"
  /\ ret' = [op |-> "mod", x |-> x, y |-> y, value |-> mod(x, y)]
  /\ UNCHANGED objects

MakeRational(a, b) ==
  /\ kind = "math"
  /\ ret' = [op |-> "make_myriota_rational", a |-> a, b |-> b,
             value |-> make_myriota_rational(a, b)]
  /\ UNCHANGED objects

\* the sum of the rational made last and of another one
RationalSum(a, b) ==
  /\ kind = "math"
  /\ ret.op = "make_myriota_rational"
  /\ ret' = [op |-> "myriota_rational_sum", x |-> ret.value,
             y |-> make_myriota_rational(a, b),
             value |-> myriota_rational_sum(ret.value, make_myriota_rational(a, b))]
  /\ UNCHANGED objects

MathInit == Construct("math", 0, 1, [p |-> 1, q |-> 1])

MathNext ==
  \/ \E x \in Ints, y \in NonZero : Mod(x, y)
  \/ \E a \in Ints, b \in NonZero : MakeRational(a, b)
  \/ \E a \in Ints, b \in NonZero : RationalSum(a, b)

MathSpec == MathInit /\ [][MathNext]_vars

\* the board after reset, before BoardInit; no CircularBuffer is in use
BoardReset == Construct("board", 0, 1, [p |-> 1, q |-> 1])

BoardNext ==
  \/ BoardInit
  \/ BoardBatteryVoltGet
  \/ ShortBatteryVoltGet

BoardSpec == BoardReset /\ [][BoardNext]_vars

----------------------------------------------------------------------------
(* SampleStore claims *)

Max(x, y) == IF x >= y THEN x ELSE y

\* C1: after pushes v0..v(N-1) and no set call, at(i) returns vi, the i-th
\* pushed value, for every i with minn() <= i <= maxn().
C1_RoundTrip ==
  (kind = "store" /\ calls >= 1 /\ sets = 0) =>
    \A i \in minn..maxn :
      /\ i \in DOMAIN stream
      /\ at(i).status = "ok"
      /\ at(i).value = stream[i]

\* C2: the range reported by minn()/maxn() is exactly [max(0, N-C), N-1], and
\* minn() is never negative.
C2_ValidRange ==
  /\ minn = Max(0, N - size)
  /\ maxn = N - 1
  /\ minn >= 0

\* an index whose sample was never pushed, or was pushed and overwritten
NotHeld(n) == n < 0 \/ n >= calls \/ n < calls - size

\* C3: at(n) and set(n, v) fail with out_of_range when n was not pushed yet
\* (n < 0 or n >= N) or was evicted, and at never returns the init value.
C3_CheckedAccessRejects ==
  /\ (ret.op \in {"at", "set"} /\ NotHeld(ret.n)) => ret.status = "out_of_range"
  /\ (ret.op = "at" /\ ret.status = "ok") => ret.value # InitElem

\* C4: once more than C samples were pushed, every push strictly increases
\* minn(), and an index that was valid and is now below minn() is rejected
\* by at with out_of_range, and stays below minn() from then on.
C4_Eviction ==
  /\ [][(calls > size /\ calls' = calls + 1) => minn' > minn]_vars
  /\ [](calls > size =>
         \A n \in everValid : n < minn => at(n).status = "out_of_range")
  /\ [][\A n \in everValid : n < minn => n < minn']_vars

\* a sample that was pushed and then evicted is asked for and refused
C4_Witness ==
  /\ kind = "store"
  /\ calls > size
  /\ ret.op = "at"
  /\ ret.n >= 0
  /\ ret.n \in everValid
  /\ ret.n < minn
  /\ ret.status = "out_of_range"

----------------------------------------------------------------------------
(* Resampler claims *)

\* C5: for every output index n in the Upsampler's [minn(), maxn()], every
\* input index m with n/gamma - W <= m <= n/gamma + W lies in the store's
\* [a.minn(), a.maxn()].
C5_UpsamplerWindowSound ==
  kind = "up" =>
    \A n \in Upsampler_minn..Upsampler_maxn :
      \A m \in Upsampler_support(n) : m >= minn /\ m <= maxn

\* C6: for every output index n in the Downsampler's [minn(), maxn()], every
\* input index m with (n - W)/gamma <= m <= (n + W)/gamma lies in the store's
\* [a.minn(), a.maxn()].
C6_DownsamplerWindowSound ==
  kind = "down" =>
    \A n \in Downsampler_minn..Downsampler_maxn :
      \A m \in Downsampler_support(n) : m >= minn /\ m <= maxn

\* C7: right after construction of an Upsampler or a Downsampler, when
\* pushed() = 0, the output window is empty: minn() > maxn().
C7_EmptyBeforeWarmup ==
  /\ (kind = "up" /\ Upsampler_pushed = 0) => Upsampler_minn > Upsampler_maxn
  /\ (kind = "down" /\ Downsampler_pushed = 0) => Downsampler_minn > Downsampler_maxn

----------------------------------------------------------------------------
(* Capacity, counter and purity claims *)

pushedOf ==
  IF kind = "up" THEN Upsampler_pushed
  ELSE IF kind = "down" THEN Downsampler_pushed ELSE pushed

\* C9: pushed() starts at 0, every push succeeds and adds exactly 1 to it, no
\* other call changes it: it equals the number of push calls, never decreases.
C9_PushedCounts ==
  /\ [](/\ pushedOf = calls
        /\ ret.op = "new" => pushedOf = 0
        /\ ret.op = "push" => ret.status = "ok")
  /\ [][/\ calls' = calls + 1 => pushedOf' = pushedOf + 1
        /\ calls' = calls => pushedOf' = pushedOf
        /\ pushedOf' >= pushedOf]_vars

\* a resampler that was pushed past its capacity and then evaluated
C9_Witness ==
  /\ kind \in {"up", "down"}
  /\ calls > size
  /\ pushedOf = calls
  /\ ret.op = "evaluate"

\* what operator() returns for n in the current state of the constructed object
evalOf(n) == IF kind = "up" THEN Upsampler_eval(n) ELSE Downsampler_eval(n)
minnOf == IF kind = "up" THEN Upsampler_minn ELSE Downsampler_minn
maxnOf == IF kind = "up" THEN Upsampler_maxn ELSE Downsampler_maxn

----------------------------------------------------------------------------
(* Window monotonicity and failed accesses *)

\* C11: minn() and maxn() of a resampler never decrease, an output index below
\* minn() is not inside [minn(), maxn()] afterwards, and with repeated pushes
\* every output index n <= 0 ends up below minn() for good.
C11_Step ==
  kind \in {"up", "down"} =>
    /\ minnOf' >= minnOf
    /\ maxnOf' >= maxnOf
    /\ \A n \in (minnOf - MaxPush)..(minnOf - 1) : n < minnOf' \/ n > maxnOf'

C11_WindowAdvances ==
  /\ [][C11_Step]_vars
  /\ <>[](kind \in {"up", "down"} => \A n \in (0 - MaxPush)..0 : n < minnOf)

\* an output index of a wrapped resampler is asked for just below the window
C11_Witness ==
  /\ kind \in {"up", "down"}
  /\ calls > size
  /\ minnOf <= maxnOf
  /\ ret.op = "evaluate"
  /\ ret.n >= 0
  /\ ret.n < minnOf

\* C12: an at or set that fails with out_of_range changes neither the
\* contents nor N, minn(), maxn(): the store is as if the call was not made.
C12_Step ==
  (ret'.op \in {"at", "set"} /\ ret'.status = "out_of_range") =>
    /\ buf' = buf /\ N' = N /\ size' = size /\ mask' = mask
    /\ minn' = minn /\ maxn' = maxn
    /\ \A n \in Indices : at(n)' = at(n)

C12_FailedAccessNoTransition == [][C12_Step]_vars

\* a set that was refused on a store that holds pushed samples
C12_Witness ==
  /\ kind = "store"
  /\ calls > size
  /\ ret.op = "set"
  /\ ret.status = "out_of_range"
  /\ ret.n >= 0
  /\ ret.n < minn

----------------------------------------------------------------------------
(* Slot mapping and checked writes *)

\* the indices whose slot is looked at: well beyond both ends of the window
SlotProbe == (0 - MaxPush - 2 * size)..(MaxPush + 2 * size)

\* C16: for every index n, negative or >= N included, the slot n & mask lies
\* in [0, C-1], the slots of buf, and two distinct indices of [N-C, N-1] have
\* distinct slots.
C16_SlotMapping ==
  /\ \A n \in SlotProbe :
        /\ BitAnd(n, mask) >= 0
        /\ BitAnd(n, mask) <= size - 1
        /\ BitAnd(n, mask) \in DOMAIN buf
  /\ \A i, j \in (N - size)..(N - 1) : i # j => BitAnd(i, mask) # BitAnd(j, mask)

\* the unchecked read was used outside the store's range, after a wrap-around
C16_Witness ==
  /\ kind \in {"up", "down"}
  /\ calls > size
  /\ ret.op = "evaluate"
  /\ \E m \in DOMAIN ret.value : m < minn \/ m > maxn

C17_Step ==
  (ret'.op = "set" /\ ret'.status = "ok") =>
    /\ \A k \in Indices : ret'.n = k =>
          (at(k)'.status = "ok" /\ at(k)'.value = ret'.value)
    /\ \A i \in minn..maxn : i # ret'.n => at(i)' = at(i)
    /\ pushed' = pushed /\ minn' = minn /\ maxn' = maxn

\* C17: a set that succeeds changes index n only: at(n) then returns v, at(i)
\* is as before for the other indices of [minn(), maxn()], pushed(), minn()
\* and maxn() are as before; pushes leave v readable at n until n is evicted.
C17_SetWritesOneIndex ==
  /\ [][C17_Step]_vars
  /\ []((lastSet # NoSet /\ lastSet.n >= minn) =>
          (at(lastSet.n).status = "ok" /\ at(lastSet.n).value = lastSet.value))

\* a written value is still read back after later pushes, one short of eviction
C17_Witness ==
  /\ kind = "store"
  /\ lastSet # NoSet
  /\ lastSet.n >= 0
  /\ lastSet.n = minn
  /\ calls > size
  /\ ret.op = "at"
  /\ ret.n = lastSet.n
  /\ ret.value = lastSet.value
  /\ lastSet.n \in DOMAIN stream
  /\ stream[lastSet.n] # lastSet.value

----------------------------------------------------------------------------
(* Integer and rational claims *)

\* no common divisor above 1
Coprime(m, n) == \A d \in 2..n : ~(m % d = 0 /\ n % d = 0)

Reduced(r) == r.q > 0 /\ Coprime(Abs(r.p), r.q)

\* C13: make_myriota_rational(a, b), b # 0, returns (p, q) with q > 0,
\* gcd(|p|, q) = 1 and p/q = a/b; myriota_rational_sum returns the sum of
\* its arguments in the same reduced form.
C13_Coprimality ==
  /\ ret.op = "make_myriota_rational" =>
        /\ Reduced(ret.value)
        /\ ret.value.p * ret.b = ret.a * ret.value.q
  /\ ret.op = "myriota_rational_sum" =>
        /\ Reduced(ret.value)
        /\ ret.value.p * (ret.x.q * ret.y.q)
             = (ret.x.p * ret.y.q + ret.y.p * ret.x.q) * ret.value.q

\* a sum that had to be reduced, of rationals given with negative denominators
C13_Witness ==
  /\ ret.op = "myriota_rational_sum"
  /\ ret.x.p < 0
  /\ ret.y.q > 1
  /\ ret.value.q < ret.x.q * ret.y.q
  /\ ret.value.q > 1

\* C15: for y > 0 and every integer x, 0 <= mod(x, y) <= y - 1 and
\* x - mod(x, y) is a multiple of y.
C15_ModIsCosetRepresentative ==
  (ret.op = "mod" /\ ret.y > 0) =>
    /\ ret.value >= 0
    /\ ret.value <= ret.y - 1
    /\ \E k \in (0 - MaxInt - 1)..(MaxInt + 1) : ret.x - ret.value = k * ret.y

\* mod of a negative x that y does not divide
C15_Witness ==
  /\ ret.op = "mod"
  /\ ret.x < 0
  /\ ret.y > 1
  /\ ret.value > 0

----------------------------------------------------------------------------
(* Board claims *)

AllRead(f) ==
  /\ Len(board.reads[f]) = AVERAGE_COUNT
  /\ \A j \in 1..AVERAGE_COUNT : ~board.reads[f][j].err

\* C18: every return of BoardBatteryVoltGet, with 0 after three good ADC
\* reads or with -1 at the first failed one (*mv then not written), leaves
\* PIN_GPIO2, which was driven high as an output, in input mode with
\* pull-down.
C18_Step ==
  (board.pc = "loop" /\ board'.pc = "idle" /\ board.fn = "BoardBatteryVoltGet") =>
    LET f == "BoardBatteryVoltGet" IN
    /\ board.PIN_GPIO2 = DrivenHigh
    /\ board'.PIN_GPIO2 = Released
    /\ board'.rc[f] \in {0, 0 - 1}
    /\ board'.rc[f] = 0 => AllRead(f)'
    /\ board'.rc[f] = 0 - 1 =>
          /\ board'.mv[f] = board.mv[f]
          /\ board'.reads[f][Len(board'.reads[f])].err
C18_SwitchReleased == [][C18_Step]_vars

\* BoardBatteryVoltGet returned -1 at its second read, before any call
\* wrote *mv
C18_Witness ==
  /\ board.pc = "idle"
  /\ board.fn = "BoardBatteryVoltGet"
  /\ board.returned["BoardBatteryVoltGet"]
  /\ board.rc["BoardBatteryVoltGet"] = 0 - 1
  /\ Len(board.reads["BoardBatteryVoltGet"]) = 2
  /\ board.mv["BoardBatteryVoltGet"] = Unwritten
  /\ board.PIN_GPIO2 = Released

\* the two functions returned from calls that saw the same board revision
\* and the same ADC results, every reading within 12 bits
SameInputs ==
  /\ board.returned["BoardBatteryVoltGet"]
  /\ board.returned["ShortBatteryVoltGet"]
  /\ board.IsRev1["BoardBatteryVoltGet"] = board.IsRev1["ShortBatteryVoltGet"]
  /\ board.reads["BoardBatteryVoltGet"] = board.reads["ShortBatteryVoltGet"]
  /\ \A j \in 1..Len(board.reads["ShortBatteryVoltGet"]) :
        board.reads["ShortBatteryVoltGet"][j].batt <= ADC_MAX

\* C19: for the same board revision and the same three ADC results, each
\* at most 4095, ShortBatteryVoltGet returns the status of
\* BoardBatteryVoltGet and, on success, writes the same millivolt value.
C19_ShortAgrees ==
  SameInputs =>
    /\ board.rc["ShortBatteryVoltGet"] = board.rc["BoardBatteryVoltGet"]
    /\ board.rc["ShortBatteryVoltGet"] = 0 =>
          board.mv["ShortBatteryVoltGet"] = board.mv["BoardBatteryVoltGet"]

\* both succeeded on three full-scale readings of a board with the divider:
\* 2 * ((3 * (4095 + 15)) / 3) = 8220 mV
C19_Witness ==
  /\ SameInputs
  /\ AllRead("ShortBatteryVoltGet")
  /\ ~board.IsRev1["ShortBatteryVoltGet"]
  /\ \A j \in 1..AVERAGE_COUNT : board.reads["ShortBatteryVoltGet"][j].batt = ADC_MAX
  /\ board.mv["ShortBatteryVoltGet"] = 2 * (ADC_MAX + VEXT_COMPENSATE)
====
